---- MODULE Spec2Model ----
(***************************************************************************)
(* The dask-backed job executors of libertem.executor.dask:                *)
(* CommonDaskMixin._get_futures, AsyncDaskJobExecutor (run_job,            *)
(* cancel_job, the _futures tracker) and DaskJobExecutor (run_job).        *)
(* The worker pool (dask.distributed client, as_completed) is modelled at  *)
(* the interface the executors use: submit, cancel, completion in any      *)
(* order, and a per-iteration queue of (future, result) pairs.             *)
(***************************************************************************)
EXTENDS Integers, Sequences, FiniteSets, TLC

\* Bounds of the model.
MaxTasks == 2        \* a job has 0..MaxTasks tasks
NumRuns == 2         \* run_job is called at most NumRuns times
MaxCancels == 1      \* cancel_job is called at most MaxCancels times
MaxExtCancels == 1   \* handles cancelled from outside the executor

Jobs == {"J1", "J2"}
Workers == {"w1"}

\* task.get_locations(): None, or a (possibly empty) collection of workers.
None == [defined |-> FALSE, workers |-> {}]
Locations == {None} \cup {[defined |-> TRUE, workers |-> W] : W \in SUBSET Workers}
JobShapes == UNION {[1..n -> Locations] : n \in 0..MaxTasks}

VARIABLES
    variant,   \* "async": AsyncDaskJobExecutor, "sync": DaskJobExecutor
    tasks,     \* job.get_tasks(), per Job object
    futures,   \* self._futures: Job -> list of futures (async executor only)
    pool,      \* the client's futures, by handle: job, run, idx, workers, status,
               \* and rank: k when it was the k-th future of its run to finish
    runs,      \* the run_job generators, in the order they were created
    calls,     \* the cancel_job calls: job, req (the futures handed to
               \* client.cancel), applied (the request has taken effect), hit
               \* (it did so while a future had still to be delivered), err
    nExt,      \* number of cancellations issued from outside the executor
    ranOn,     \* the worker each finished future ran on: pairs <<handle, worker>>
    ex,        \* the executor's connection: client, is_local, cluster, close()
    fns,       \* the run_function calls, in the order they were made
    mp,        \* a map_partitions generator of the sync executor
    th,        \* the thread-count settings and the open set_num_threads scopes
    holo       \* HoloReconstructUDF: signal shape, out_shape, FFT slice

\* The state of run_job and cancel_job, and the state of everything else.
jvars == <<variant, tasks, futures, pool, runs, calls, nExt>>
xvars == <<ranOn, ex, fns, mp, th, holo>>
vars == <<variant, tasks, futures, pool, runs, calls, nExt,
          ranOn, ex, fns, mp, th, holo>>

Handles == 1..Len(pool)
RunIds == 1..Len(runs)
Range(s) == {s[i] : i \in 1..Len(s)}

\* Faulty variant: the check for empty locations left out.
NeverEmptyLoc(l) == FALSE

\* locations is not None and len(locations) == 0
IsEmptyLoc(l) == l.defined /\ l.workers = {}

\* The index of the task at which the loop of _get_futures raises, or
\* Len(ts) + 1 when it runs to its end.
FirstBad(ts) ==
    LET bad == {i \in 1..Len(ts) : IsEmptyLoc(ts[i])}
    IN  IF bad = {} THEN Len(ts) + 1
        ELSE CHOOSE i \in bad : \A k \in bad : i <= k

\* Faulty variant: the tasks are submitted without their locations.
SubmittedAnywhere(j, r, ts) ==
    [i \in 1..(FirstBad(ts) - 1) |->
        [job |-> j, run |-> r, idx |-> i, workers |-> None, status |-> "pending",
         rank |-> 0]]

\* What _get_futures hands to client.submit before it returns or raises:
\* one future per task, in task order, with workers=locations.
Submitted(j, r, ts) ==
    [i \in 1..(FirstBad(ts) - 1) |->
        [job |-> j, run |-> r, idx |-> i, workers |-> ts[i], status |-> "pending",
         rank |-> 0]]

\* self._futures[job] = futures
Register(fut, j, hs) == (j :> hs) @@ fut

\* Faulty variant: the entry is not deleted.
ForgetNothing(fut, j) == fut

\* del self._futures[job]
Forget(fut, j) == [k \in (DOMAIN fut) \ {j} |-> fut[k]]

NewRun(j) ==
    [job |-> j, pc |-> "created", futs |-> <<>>, waiting |-> {},
     queue |-> <<>>, out |-> <<>>, err |-> "none"]

\* The executor object. client is the state of self.client ("none" for
\* None), cluster what self.client.cluster refers to ("remote": the client was
\* given an address, its cluster attribute is None). made, closes, raised and
\* logged record how the object was built, the close() calls that have
\* ended, how the last one ended and the log.error / log.exception calls.
Executor(how, c, l, k) ==
    [made |-> how, client |-> c, is_local |-> l, cluster |-> k,
     closes |-> 0, raised |-> "none", logged |-> 0]

\* connect(scheduler_uri)
Connected == Executor("connect", "open", FALSE, "remote")

\* make_local()
MadeLocal == Executor("make_local", "open", TRUE, "running")

\* The constructor called directly, with no client or with a client to a
\* remote scheduler.
Constructed == {Executor("init", c, l, IF c = "none" THEN "none" ELSE "remote") :
                    c \in {"none", "open"}, l \in BOOLEAN}
\* No run_function call has been made.
NoFns == [calls |-> <<>>, units |-> <<>>]
\* No map_partitions call has been made.
NoMap == [pc |-> "none", parts |-> <<>>, units |-> <<>>, queue |-> <<>>, out |-> <<>>]
\* The thread settings are not looked at.
NoThreads == [cfg |-> [fftw |-> 1, numba |-> 1, limit |-> 1], hasFftw |-> FALSE,
              stack |-> <<>>, last |-> [how |-> "none"]]
\* No HoloReconstructUDF has been set up.
NoHolo == [pc |-> "none", sig |-> <<1, 1>>, out_shape |-> <<1, 1>>,
           slice |-> [y_min |-> 0, y_max |-> 0, x_min |-> 0, x_max |-> 0],
           cropped |-> <<0, 0>>]

InitJobs ==
    /\ futures = <<>>
    /\ pool = <<>>
    /\ runs = <<>>
    /\ calls = <<>>
    /\ nExt = 0
    /\ ranOn = {}
    /\ fns = NoFns

Init ==
    /\ variant \in {"async", "sync"}
    /\ tasks \in [Jobs -> JobShapes]
    /\ InitJobs
    /\ ex = Connected
    /\ mp = NoMap
    /\ th = NoThreads
    /\ holo = NoHolo

\* Faulty variant: run_job as an ordinary function, submitting the tasks
\* at the call.
EagerRunJob(j) ==
    /\ Len(runs) < NumRuns
    /\ Len(runs) = 0 => j = "J1"
    /\ runs' = Append(runs, NewRun(j))
    /\ pool' = pool \o Submitted(j, Len(runs) + 1, tasks[j])
    /\ UNCHANGED <<variant, tasks, futures, calls, nExt>>

\* run_job(job) is called: a generator object is created, no code of its
\* body has run yet. The two Job objects are interchangeable (Init gives
\* each every shape), so the first call is taken to be on "J1".
CallRunJob(j) ==
    /\ Len(runs) < NumRuns
    /\ Len(runs) = 0 => j = "J1"
    /\ runs' = Append(runs, NewRun(j))
    /\ UNCHANGED <<variant, tasks, futures, pool, calls, nExt>>

\* The first request for a result: _get_futures, the registration (async),
\* and the start of the iteration over as_completed. A job without tasks is
\* exhausted in the same request.
Start(r) ==
    /\ runs[r].pc = "created"
    /\ LET j == runs[r].job
           ts == tasks[j]
           new == Submitted(j, r, ts)
           hs == [i \in 1..Len(new) |-> Len(pool) + i]
       IN  /\ pool' = pool \o new
           /\ IF FirstBad(ts) <= Len(ts)
              THEN /\ runs' = [runs EXCEPT ![r].pc = "raised",
                                           ![r].err = "ValueError"]
                   /\ UNCHANGED futures
              ELSE /\ runs' = [runs EXCEPT
                                 ![r].pc = IF Len(hs) = 0 THEN "done" ELSE "iter",
                                 ![r].futs = hs,
                                 ![r].waiting = Range(hs)]
                   /\ futures' =
                        IF variant = "async"
                        THEN IF Len(hs) = 0
                             THEN Forget(Register(futures, j, hs), j)
                             ELSE Register(futures, j, hs)
                        ELSE futures
    /\ UNCHANGED <<variant, tasks, calls, nExt>>

\* Faulty variant: the pair queued last is yielded first.
PopLast(q) == [e |-> q[Len(q)], rest |-> SubSeq(q, 1, Len(q) - 1)]

\* as_completed yields the pairs in the order they were queued.
Pop(q) == [e |-> Head(q), rest |-> Tail(q)]

\* Faulty variant: the loop without its cancellation check.
NeverCancelled(p, h) == FALSE

\* future.cancelled()
IsCancelled(p, h) == p[h].status = "cancelled"

\* as_completed hands the next (future, result) pair to the loop of run_job:
\* the async loop raises JobCancelledError for a cancelled future, the sync
\* loop yields whatever result came with the future.
Deliver(r) ==
    /\ runs[r].pc = "iter"
    /\ runs[r].queue # <<>>
    /\ LET e == Pop(runs[r].queue).e
       IN  IF variant = "async" /\ IsCancelled(pool, e.h)
           THEN runs' = [runs EXCEPT ![r].pc = "raised",
                                     ![r].err = "JobCancelledError",
                                     ![r].queue = <<>>,
                                     ![r].waiting = {}]
           ELSE runs' = [runs EXCEPT ![r].queue = Pop(@).rest,
                                     ![r].out = Append(@, e)]
    /\ UNCHANGED <<variant, tasks, futures, pool, calls, nExt>>

\* as_completed is exhausted: the loop ends, the async executor forgets
\* the job.
Exhaust(r) ==
    /\ runs[r].pc = "iter"
    /\ runs[r].queue = <<>>
    /\ runs[r].waiting = {}
    /\ IF variant = "async"
       THEN IF runs[r].job \in DOMAIN futures
            THEN /\ futures' = Forget(futures, runs[r].job)
                 /\ runs' = [runs EXCEPT ![r].pc = "done"]
            ELSE /\ runs' = [runs EXCEPT ![r].pc = "raised",
                                         ![r].err = "KeyError"]
                 /\ UNCHANGED futures
       ELSE /\ runs' = [runs EXCEPT ![r].pc = "done"]
            /\ UNCHANGED futures
    /\ UNCHANGED <<variant, tasks, pool, calls, nExt>>

\* The effect on the iterations of the futures in H leaving the pending
\* state: each is queued, with its result or as cancelled, on the
\* as_completed object that waits for it.
Notify(rs, H, ok) ==
    [r \in 1..Len(rs) |->
        IF rs[r].pc = "iter"
        THEN LET hit == SelectSeq(rs[r].futs, LAMBDA h : h \in H \cap rs[r].waiting)
             IN  [rs[r] EXCEPT
                    !.waiting = @ \ H,
                    !.queue = @ \o [i \in 1..Len(hit) |-> [h |-> hit[i], ok |-> ok]]]
        ELSE rs[r]]

\* A worker finishes a task.
Complete(h) ==
    /\ pool[h].status = "pending"
    /\ pool' = [pool EXCEPT
                  ![h].status = "finished",
                  ![h].rank = 1 + Cardinality({x \in Handles :
                                    pool[x].run = pool[h].run /\ pool[x].rank > 0})]
    /\ runs' = Notify(runs, {h}, TRUE)
    /\ UNCHANGED <<variant, tasks, futures, calls, nExt>>

\* client.cancel(H) takes effect: every future of H is cancelled.
Cancelled(p, H) ==
    [h \in 1..Len(p) |-> IF h \in H THEN [p[h] EXCEPT !.status = "cancelled"] ELSE p[h]]

\* Faulty variants: every future ever submitted for the job, whether it is
\* tracked or not; every future in the tracker, whatever its job.
CancelTargetsAll(fut, j) == {h \in Handles : pool[h].job = j}
CancelTargetsEvery(fut, j) == UNION {Range(fut[k]) : k \in DOMAIN fut}

\* The futures cancel_job hands to client.cancel.
CancelTargets(fut, j) == IF j \in DOMAIN fut THEN Range(fut[j]) ELSE {}

\* cancel_job(job): the lookup and the request; the request takes effect
\* later (the call awaits client.cancel).
CancelJob(j) ==
    /\ variant = "async"
    /\ Len(calls) < MaxCancels
    /\ calls' = Append(calls, [job |-> j,
                              req |-> CancelTargets(futures, j),
                              applied |-> CancelTargets(futures, j) = {},
                              hit |-> FALSE,
                              err |-> "none"])
    /\ UNCHANGED <<variant, tasks, futures, pool, runs, nExt>>

\* The futures of H that an iteration in progress has still to hand to its
\* loop.
Undelivered(H) ==
    {h \in H : /\ runs[pool[h].run].pc = "iter"
               /\ \/ h \in runs[pool[h].run].waiting
                  \/ \E i \in 1..Len(runs[pool[h].run].queue) :
                        runs[pool[h].run].queue[i].h = h}

\* The pool carries out a cancel request.
PoolCancel(c) ==
    /\ ~calls[c].applied
    /\ calls' = [calls EXCEPT ![c].applied = TRUE,
                              ![c].hit = Undelivered(calls[c].req) # {}]
    /\ pool' = Cancelled(pool, calls[c].req)
    /\ runs' = Notify(runs, {h \in calls[c].req : pool[h].status = "pending"}, FALSE)
    /\ UNCHANGED <<variant, tasks, futures, nExt>>

\* A future that an iteration still waits for, or has queued, is cancelled
\* by somebody else holding the client.
ExternalCancel(h) ==
    /\ nExt < MaxExtCancels
    /\ pool[h].status # "cancelled"
    /\ Undelivered({h}) # {}
    /\ nExt' = nExt + 1
    /\ pool' = Cancelled(pool, {h})
    /\ runs' = Notify(runs, {x \in {h} : pool[x].status = "pending"}, FALSE)
    /\ UNCHANGED <<variant, tasks, futures, calls>>

Next ==
    \/ (\E j \in Jobs : CallRunJob(j)) /\ UNCHANGED xvars
    \/ (\E r \in RunIds : Start(r)) /\ UNCHANGED xvars
    \/ (\E r \in RunIds : Deliver(r)) /\ UNCHANGED xvars
    \/ (\E r \in RunIds : Exhaust(r)) /\ UNCHANGED xvars
    \/ (\E h \in Handles : Complete(h)) /\ UNCHANGED xvars
    \/ (\E j \in Jobs : CancelJob(j)) /\ UNCHANGED xvars
    \/ (\E c \in 1..Len(calls) : PoolCancel(c)) /\ UNCHANGED xvars
    \/ (\E h \in Handles : ExternalCancel(h)) /\ UNCHANGED xvars

Spec == Init /\ [][Next]_vars

\* The async executor on jobs of unconstrained tasks, with a consumer that
\* keeps iterating and a pool that finishes tasks and carries out the cancel
\* requests it receives.
UnconstrainedShapes == UNION {[1..n -> {None}] : n \in 0..MaxTasks}

InitAsync ==
    /\ Init
    /\ variant = "async"
    /\ tasks \in [Jobs -> UnconstrainedShapes]

ConsumerStep(r) ==
    IF r \in RunIds THEN (Deliver(r) \/ Exhaust(r)) /\ UNCHANGED xvars ELSE FALSE
PoolCancelStep(c) ==
    IF c <= Len(calls) THEN PoolCancel(c) /\ UNCHANGED xvars ELSE FALSE
CompleteStep == (\E h \in Handles : Complete(h)) /\ UNCHANGED xvars

Fairness ==
    /\ \A r \in 1..NumRuns : WF_vars(ConsumerStep(r))
    /\ \A c \in 1..MaxCancels : WF_vars(PoolCancelStep(c))
    /\ WF_vars(CompleteStep)

FairSpec == InitAsync /\ [][Next]_vars /\ Fairness

----------------------------------------------------------------------------
\* Vocabulary of the properties.

\* The handles the pool holds for run r.
HandlesOf(r) == {h \in Handles : pool[h].run = r}

\* A task whose locations are defined and empty.
EmptyLocation(l) == l.defined /\ l.workers = {}
HasEmptyLocation(j) == \E i \in 1..Len(tasks[j]) : EmptyLocation(tasks[j][i])

\* The iteration of run r has come to its end without ValueError or
\* JobCancelledError (the KeyError of a doubly registered job is raised
\* after the last result).
Iterated(r) ==
    \/ runs[r].pc = "done"
    \/ runs[r].pc = "raised" /\ runs[r].err = "KeyError"

NoneCancelled(r) == \A h \in HandlesOf(r) : pool[h].status # "cancelled"

\* C1: a run of a job with N tasks, all with acceptable locations and none
\* cancelled, has yielded, when its iteration ends, exactly N results, one
\* per task of the job, the i-th result being that of the i-th task to
\* complete; and at any moment the results yielded so far are the first
\* completions, in completion order. Both executors.
C1_CompletionOrder ==
    \A r \in RunIds :
        (~HasEmptyLocation(runs[r].job) /\ NoneCancelled(r)) =>
            /\ \A i \in 1..Len(runs[r].out) :
                  /\ runs[r].out[i].ok
                  /\ pool[runs[r].out[i].h].run = r
                  /\ pool[runs[r].out[i].h].job = runs[r].job
                  /\ pool[runs[r].out[i].h].rank = i
            /\ Iterated(r) =>
                  /\ Len(runs[r].out) = Len(tasks[runs[r].job])
                  /\ {pool[runs[r].out[i].h].idx : i \in 1..Len(runs[r].out)}
                        = 1..Len(tasks[runs[r].job])

\* Two tasks completed in the reverse of the submission order and were
\* yielded in that order.
C1_Witness ==
    \E r \in RunIds :
        /\ runs[r].pc = "done"
        /\ NoneCancelled(r)
        /\ Len(runs[r].out) = 2
        /\ pool[runs[r].out[1].h].idx = 2
        /\ pool[runs[r].out[2].h].idx = 1

\* C2: no task with defined, empty locations is ever handed to
\* client.submit; a run that has reached such a task has raised ValueError
\* (the spec's NoEligibleWorkersError) and yielded nothing; when the job is
\* that one task, the pool has received no submission from the run.
C2_EmptyLocationsRaise ==
    /\ \A h \in Handles : ~EmptyLocation(pool[h].workers)
    /\ \A r \in RunIds :
          (runs[r].pc # "created" /\ HasEmptyLocation(runs[r].job)) =>
              /\ runs[r].pc = "raised"
              /\ runs[r].err = "ValueError"
              /\ runs[r].out = <<>>
              /\ (Len(tasks[runs[r].job]) = 1 => HandlesOf(r) = {})
    /\ \A r \in RunIds :
          runs[r].err = "ValueError" => HasEmptyLocation(runs[r].job)

C2_Witness ==
    \E r \in RunIds :
        /\ Len(tasks[runs[r].job]) = 1
        /\ EmptyLocation(tasks[runs[r].job][1])
        /\ runs[r].err = "ValueError"
        /\ HandlesOf(r) = {}

\* C3: when _get_futures raises at task k, the tasks after k are never
\* submitted, every handle submitted for the tasks before k has been
\* cancelled (or its cancellation requested) by the time the caller sees the
\* error, and the job is not registered by that run.
C3_NoOrphans ==
    \A r \in RunIds :
        runs[r].err = "ValueError" =>
            /\ \A h \in HandlesOf(r) :
                  \A i \in 1..Len(tasks[runs[r].job]) :
                      EmptyLocation(tasks[runs[r].job][i]) => pool[h].idx < i
            /\ \A j \in DOMAIN futures : Range(futures[j]) \cap HandlesOf(r) = {}
            /\ \A h \in HandlesOf(r) :
                  \/ pool[h].status = "cancelled"
                  \/ \E c \in 1..Len(calls) : h \in calls[c].req

\* C4: a run started on a job that is tracked fails with DuplicateJobError
\* and leaves the tracker as it is.
C4_DuplicateRejected ==
    [][\A r \in RunIds :
          (Start(r) /\ runs[r].job \in DOMAIN futures) =>
              /\ runs'[r].err = "DuplicateJobError"
              /\ futures' = futures]_vars

\* The consumer of the futures of request c has observed JobCancelledError
\* (the spec's TaskCancelledError).
Observed(c) ==
    IF c <= Len(calls)
    THEN \A h \in calls[c].req : runs[pool[h].run].err = "JobCancelledError"
    ELSE FALSE

\* cancel_job call c found its job tracked.
Requested(c) == IF c <= Len(calls) THEN calls[c].req # {} ELSE FALSE

\* The request of call c took effect while a future of it had still to be
\* handed to the consumer.
InTime(c) == IF c <= Len(calls) THEN calls[c].hit ELSE FALSE

\* A result is never yielded for a future that is cancelled at that moment.
NoResultForCancelled ==
    [][\A r \in RunIds :
          Len(runs'[r].out) > Len(runs[r].out) =>
              pool[runs'[r].out[Len(runs'[r].out)].h].status # "cancelled"]_vars

\* C5, as claimed: after cancel_job on a tracked job whose sequence is still
\* consumed, the consumer eventually observes JobCancelledError.
C5_EventuallyObserved ==
    \A c \in 1..MaxCancels :
        [](Requested(c) => <>Observed(c))

\* C5, amended: when the cancellation takes effect while a future of the
\* job has still to be handed to the consumer, the consumer eventually
\* observes JobCancelledError; and it is never handed a result for a future
\* that is cancelled.
C5_ObservedWhenInTime ==
    /\ \A c \in 1..MaxCancels :
          [](InTime(c) => <>Observed(c))
    /\ NoResultForCancelled

\* The consumer took a result, then the job was cancelled, and the consumer
\* got the error.
C5_Witness ==
    \E c \in 1..Len(calls) :
        /\ calls[c].hit
        /\ Observed(c)
        /\ \E h \in calls[c].req : Len(runs[pool[h].run].out) >= 1

\* C6: every job in the tracker is a job with a run in progress that
\* registered these futures.
C6_TrackedIsRunning ==
    \A j \in DOMAIN futures :
        \E r \in RunIds :
            /\ runs[r].job = j
            /\ runs[r].pc = "iter"
            /\ runs[r].futs = futures[j]

\* No run of job j has futures submitted and its end not yet reached.
Quiescent(j) ==
    \A r \in RunIds :
        runs[r].job = j =>
            \/ runs[r].pc \in {"created", "done"}
            \/ runs[r].err = "ValueError"

\* C7: the step that exhausts a run's sequence leaves the job out of the
\* tracker; as long as no other run of the job is under way the job stays
\* out, and a cancel_job on it then requests nothing from the pool and
\* raises nothing.
C7_ForgottenAtExhaustion ==
    /\ [][\A r \in RunIds :
            (runs[r].pc # "done" /\ runs'[r].pc = "done") =>
                runs[r].job \notin DOMAIN futures']_vars
    /\ [](\A j \in Jobs :
            ((\E r \in RunIds : runs[r].job = j /\ runs[r].pc = "done")
                /\ Quiescent(j)) => j \notin DOMAIN futures)
    /\ [][\A j \in Jobs :
            (CancelJob(j) /\ Quiescent(j)
                /\ \E r \in RunIds : runs[r].job = j /\ runs[r].pc = "done") =>
                /\ calls'[Len(calls')].req = {}
                /\ calls'[Len(calls')].applied
                /\ calls'[Len(calls')].err = "none"
                /\ UNCHANGED <<pool, futures, runs>>]_vars

\* A run yielded two results and came to its end; cancel_job was then a
\* no-op on its job.
C7_Witness ==
    /\ variant = "async"
    /\ \E r \in RunIds :
          /\ runs[r].pc = "done"
          /\ Len(runs[r].out) = 2
          /\ Quiescent(runs[r].job)
          /\ \E c \in 1..Len(calls) :
                calls[c].job = runs[r].job /\ calls[c].req = {}

\* C8: cancel_job on a job that is not tracked raises nothing, requests no
\* cancellation and leaves the tracker, the pool and every run as they are;
\* a call that requested nothing never reaches the pool.
C8_UntrackedNoOp ==
    /\ [][\A j \in Jobs :
            (CancelJob(j) /\ j \notin DOMAIN futures) =>
                /\ calls'[Len(calls')].req = {}
                /\ calls'[Len(calls')].applied
                /\ calls'[Len(calls')].err = "none"
                /\ UNCHANGED <<pool, futures, runs>>]_vars
    /\ [][\A c \in 1..Len(calls) :
            calls[c].req = {} => calls'[c] = calls[c]]_vars

\* cancel_job was called on a job that had handles in the pool but no entry
\* in the tracker.
C8_Witness ==
    \E c \in 1..Len(calls) :
        /\ calls[c].req = {}
        /\ calls[c].job \notin DOMAIN futures
        /\ \E h \in Handles : pool[h].job = calls[c].job
        /\ \E j \in DOMAIN futures : j # calls[c].job

\* C9: cancel_job(J1) requests the cancellation of exactly the futures
\* registered for J1, none of them a future of another job; neither the call
\* nor the pool carrying it out changes the tracker, a future of another job
\* or a run of another job; and a run of a job that no cancel_job named, with
\* no cancellation from outside, yields all its results.
C9_OnlyOwnHandles ==
    /\ [](\A c \in 1..Len(calls) :
            \A h \in calls[c].req : pool[h].job = calls[c].job)
    /\ [][\A j \in DOMAIN futures :
            CancelJob(j) =>
                /\ calls'[Len(calls')].req = Range(futures[j])
                /\ UNCHANGED <<pool, futures, runs>>]_vars
    /\ [][\A c \in 1..Len(calls) :
            PoolCancel(c) =>
                /\ futures' = futures
                /\ \A h \in Handles :
                      pool'[h] # pool[h] =>
                          h \in calls[c].req /\ pool[h].job = calls[c].job
                /\ \A r \in RunIds :
                      runs'[r] # runs[r] => runs[r].job = calls[c].job]_vars
    /\ [](\A r \in RunIds :
            (/\ nExt = 0
             /\ Iterated(r)
             /\ \A c \in 1..Len(calls) : calls[c].job # runs[r].job) =>
                /\ Len(runs[r].out) = Len(tasks[runs[r].job])
                /\ \A i \in 1..Len(runs[r].out) : runs[r].out[i].ok)

\* J1 was cancelled and its consumer got the error, while the run of
\* another job yielded both its results.
C9_Witness ==
    \E c \in 1..Len(calls) :
        /\ calls[c].req # {}
        /\ calls[c].applied
        /\ Observed(c)
        /\ \E r \in RunIds :
              /\ runs[r].job # calls[c].job
              /\ runs[r].pc = "done"
              /\ Len(runs[r].out) = 2

\* C10: a future that is cancelled when the iteration reaches it makes the
\* iteration raise JobCancelledError instead of yielding, and a run that has
\* raised yields nothing more. Both executors.
C10_CancelledSurfaced ==
    [][\A r \in RunIds :
          /\ (Deliver(r) /\ pool[Head(runs[r].queue).h].status = "cancelled") =>
                /\ runs'[r].pc = "raised"
                /\ runs'[r].err = "JobCancelledError"
                /\ runs'[r].out = runs[r].out
          /\ runs[r].pc = "raised" => runs'[r] = runs[r]]_vars


----------------------------------------------------------------------------
\* C11: the sync and the async executor follow one contract: in both, the
\* first request for a result registers the job's futures in the tracker,
\* and the job is forgotten when its sequence is exhausted.
C11_SameContract ==
    [][\A r \in RunIds :
          /\ (Start(r) /\ runs'[r].pc = "iter") =>
                /\ runs[r].job \in DOMAIN futures'
                /\ futures'[runs[r].job] = runs'[r].futs
          /\ (Exhaust(r) /\ runs'[r].pc = "done") =>
                runs[r].job \notin DOMAIN futures']_vars


----------------------------------------------------------------------------
\* Claim vocabulary for the lazy start: no iteration on job j has been asked
\* for a result yet.
NotYetRequested(j) ==
    \A r \in RunIds : runs[r].job = j => runs[r].pc = "created"

\* C19: run_job is lazy at its start. Until the first result is requested
\* no task of the call has been submitted, the job is not tracked and no
\* error has been raised; a cancel_job issued in that window requests no
\* cancellation, and the first request then submits every task of the job
\* or raises the locality error.
C19_LazyStart ==
    /\ [](\A r \in RunIds : runs[r].pc = "created" =>
            /\ \A h \in Handles : pool[h].run # r
            /\ runs[r].futs = <<>>
            /\ runs[r].out = <<>>
            /\ runs[r].err = "none")
    /\ [](\A j \in Jobs : NotYetRequested(j) => j \notin DOMAIN futures)
    /\ [][/\ Len(calls') > Len(calls) /\ NotYetRequested(calls'[Len(calls')].job)
             => calls'[Len(calls')].req = {} /\ pool' = pool
          /\ \A r \in RunIds :
               runs[r].pc = "created" /\ runs'[r].pc # "created" =>
                 \/ /\ runs'[r].pc = "raised"
                    /\ runs'[r].err = "ValueError"
                    /\ HasEmptyLocation(runs[r].job)
                 \/ /\ runs'[r].pc \in {"iter", "done"}
                    /\ Len(runs'[r].futs) = Len(tasks[runs[r].job])
                    /\ \A i \in 1..Len(runs'[r].futs) :
                         /\ pool'[runs'[r].futs[i]].idx = i
                         /\ pool'[runs'[r].futs[i]].run = r
                         /\ pool'[runs'[r].futs[i]].status = "pending"]_vars

\* A cancel_job on J1 was issued while its only run_job call had not been
\* asked for a result; the job has tasks.
C19_Witness ==
    /\ Len(runs) = 1 /\ runs[1].pc = "created" /\ runs[1].job = "J1"
    /\ Len(tasks["J1"]) = MaxTasks
    /\ Len(calls) = 1 /\ calls[1].job = "J1" /\ calls[1].req = {}
    /\ pool = <<>>


----------------------------------------------------------------------------
\* close(), and the operations of an executor that has been closed.

MaxCloses == 2

\* How a call of client.close() or cluster.close(timeout=1) ends: it
\* returns, raises tornado.util.TimeoutError, or raises another Exception.
LibOutcomes == {"ok", "timeout", "error"}

Ended(e, err, nlog) ==
    [e EXCEPT !.closes = @ + 1, !.raised = err, !.logged = @ + nlog]

\* AsyncDaskJobExecutor.close with client.close() ending as cres and
\* cluster.close(timeout=1) as kres.
AsyncClose(e, cres, kres) ==
    IF e.client = "none" THEN Ended(e, "none", 1)
    ELSE IF cres # "ok" THEN Ended(e, "none", 1)
    ELSE LET c == [e EXCEPT !.client = "closed"]
         IN  IF ~e.is_local THEN Ended(c, "none", 0)
             ELSE IF e.cluster = "remote" THEN Ended(c, "none", 1)
             ELSE IF kres = "ok" THEN Ended([c EXCEPT !.cluster = "closed"], "none", 0)
             ELSE IF kres = "timeout"
                  THEN Ended([c EXCEPT !.cluster = "closing"], "none", 0)
             ELSE Ended(c, "none", 1)

\* DaskJobExecutor.close: the cluster first, then the client, nothing caught
\* but the TimeoutError of cluster.close.
SyncClose(e, cres, kres) ==
    IF e.client = "none" THEN Ended(e, "AttributeError", 0)
    ELSE LET k == IF e.is_local /\ e.cluster # "remote"
                  THEN IF kres = "ok" THEN [e EXCEPT !.cluster = "closed"]
                       ELSE [e EXCEPT !.cluster = "closing"]
                  ELSE e
         IN  IF e.is_local /\ e.cluster # "remote" /\ kres = "error"
             THEN Ended(e, "Exception", 0)
             ELSE IF cres = "ok" THEN Ended([k EXCEPT !.client = "closed"], "none", 0)
             ELSE Ended(k, IF cres = "timeout" THEN "TimeoutError" ELSE "Exception", 0)

Close ==
    /\ ex.closes < MaxCloses
    /\ \E cres, kres \in LibOutcomes :
         ex' = IF variant = "async" THEN AsyncClose(ex, cres, kres)
               ELSE SyncClose(ex, cres, kres)
    /\ UNCHANGED <<jvars, ranOn, fns, mp, th, holo>>

LifeInit ==
    /\ variant \in {"async", "sync"}
    /\ tasks \in [Jobs -> UnconstrainedShapes]
    /\ InitJobs
    /\ ex \in {Connected, MadeLocal} \cup Constructed
    /\ mp = NoMap
    /\ th = NoThreads
    /\ holo = NoHolo

\* The pool is in use by one run_job call until close() is called.
InUse == ex.client = "open" /\ ex.closes = 0

\* After close() the model follows the operations that do not reach into
\* the client library: a run_job call (the generator is only created), the
\* first request on a job without tasks, cancel_job on an untracked job.
LifeNext ==
    \/ Close
    \/ InUse /\ Len(runs) = 0 /\ (\E j \in Jobs : CallRunJob(j)) /\ UNCHANGED xvars
    \/ InUse /\ (\E r \in RunIds : Start(r)) /\ UNCHANGED xvars
    \/ InUse /\ (\E r \in RunIds : Deliver(r)) /\ UNCHANGED xvars
    \/ InUse /\ (\E r \in RunIds : Exhaust(r)) /\ UNCHANGED xvars
    \/ InUse /\ (\E h \in Handles : Complete(h)) /\ UNCHANGED xvars
    \/ InUse /\ (\E j \in Jobs : CancelJob(j)) /\ UNCHANGED xvars
    \/ InUse /\ (\E c \in 1..Len(calls) : PoolCancel(c)) /\ UNCHANGED xvars
    \/ ex.closes > 0 /\ (\E j \in Jobs : CallRunJob(j)) /\ UNCHANGED xvars
    \/ ex.closes > 0 /\ UNCHANGED xvars
         /\ \E r \in RunIds : tasks[runs[r].job] = <<>> /\ Start(r)
    \/ ex.closes > 0 /\ UNCHANGED xvars
         /\ \E j \in Jobs : j \notin DOMAIN futures /\ CancelJob(j)

LifeSpec == LifeInit /\ [][LifeNext]_vars

\* C12: close() never raises to its caller, in either variant, whatever the
\* state of the connection and however the teardown ends.
C12_CloseNeverRaises == ex.closes > 0 => ex.raised = "none"

\* C13: once close() has ended, an executor made by connect has released its
\* connection and left the remote pool alone, and an executor made by
\* make_local has released its connection and torn down its pool (the
\* teardown may still be going on when the bounded wait ran out).
C13_TeardownIffProvisioned ==
    ex.closes > 0 =>
        /\ ex.made = "connect" => ex.client = "closed" /\ ex.cluster = "remote"
        /\ ex.made = "make_local" =>
              ex.client = "closed" /\ ex.cluster \in {"closed", "closing"}

\* C16: an operation invoked after close() has ended fails with
\* PoolUnavailableError, and the pool is left as it is.
C16_FailsAfterClose ==
    [][ex.closes > 0 =>
          /\ Len(calls') > Len(calls) =>
                calls'[Len(calls')].err = "PoolUnavailableError"
          /\ \A r \in RunIds :
                runs[r].pc = "created" /\ runs'[r].pc # "created" =>
                    runs'[r].pc = "raised" /\ runs'[r].err = "PoolUnavailableError"
          /\ pool' = pool]_vars


----------------------------------------------------------------------------
\* Where the tasks of a job run: one run_job call on a pool of two workers.

PoolWorkers == {"w1", "w2"}

PlaceLocations ==
    {None} \cup {[defined |-> TRUE, workers |-> W] : W \in SUBSET PoolWorkers}

PlaceShapes == UNION {[1..n -> PlaceLocations] : n \in 0..MaxTasks}

PlaceInit ==
    /\ variant \in {"async", "sync"}
    /\ tasks \in [Jobs -> PlaceShapes]
    /\ tasks["J2"] = <<>>
    /\ InitJobs
    /\ ex = Connected
    /\ mp = NoMap
    /\ th = NoThreads
    /\ holo = NoHolo

Placed(h) == \E w \in PoolWorkers : <<h, w>> \in ranOn

\* The scheduler assigns a submitted task to a worker: any worker when the
\* task was submitted with workers=None, else one of the workers given.
Place(h, w) ==
    /\ pool[h].status = "pending"
    /\ ~Placed(h)
    /\ pool[h].workers.defined => w \in pool[h].workers.workers
    /\ ranOn' = ranOn \cup {<<h, w>>}
    /\ UNCHANGED <<jvars, ex, fns, mp, th, holo>>

PlaceNext ==
    \/ Len(runs) = 0 /\ CallRunJob("J1") /\ UNCHANGED xvars
    \/ (\E r \in RunIds : Start(r)) /\ UNCHANGED xvars
    \/ \E h \in Handles, w \in PoolWorkers : Place(h, w)
    \/ (\E h \in Handles : Placed(h) /\ Complete(h)) /\ UNCHANGED xvars
    \/ (\E r \in RunIds : Deliver(r)) /\ UNCHANGED xvars
    \/ (\E r \in RunIds : Exhaust(r)) /\ UNCHANGED xvars

PlaceSpec == PlaceInit /\ [][PlaceNext]_vars

\* The locations of the task that handle h was submitted for.
LocationsOf(h) == tasks[pool[h].job][pool[h].idx]

\* C14: every task is submitted with exactly its locations as the worker
\* constraint (none when its locations are undefined), and a task whose
\* locations are defined and non-empty runs only on one of those workers.
C14_RunsWhereAllowed ==
    \A h \in Handles :
        /\ pool[h].workers = LocationsOf(h)
        /\ LocationsOf(h).defined =>
              \A w \in PoolWorkers : <<h, w>> \in ranOn => w \in LocationsOf(h).workers
        /\ ~LocationsOf(h).defined => ~pool[h].workers.defined

\* A job of a task bound to w2 and a task without locations has run: the
\* first on w2, the second on w1, and both results were yielded.
C14_Witness ==
    /\ tasks["J1"] = <<[defined |-> TRUE, workers |-> {"w2"}], None>>
    /\ Len(runs) = 1 /\ runs[1].pc = "done" /\ Len(runs[1].out) = 2
    /\ ranOn = {<<1, "w2">>, <<2, "w1">>}


----------------------------------------------------------------------------
\* run_function, next to jobs that are being run.

MaxFnCalls == 2

\* priority=1
FnPriority == 1

\* The callables handed to run_function (fn with its arguments bound): one
\* that returns a value and one that raises.
Callables == {[raises |-> FALSE, val |-> "v"], [raises |-> TRUE, val |-> "E"]}

NoOutcome == [raised |-> FALSE, val |-> "unset"]

\* run_function(fn, ...) is called: one future is submitted and the call
\* waits for it.
RunFunction(f) ==
    /\ Len(fns.calls) < MaxFnCalls
    /\ fns' = [calls |-> Append(fns.calls,
                           [fn |-> f, unit |-> Len(fns.units) + 1,
                            pc |-> "waiting", ret |-> NoOutcome]),
               units |-> Append(fns.units,
                           [fn |-> f, priority |-> FnPriority,
                            status |-> "pending", outcome |-> NoOutcome])]
    /\ UNCHANGED <<jvars, ranOn, ex, mp, th, holo>>

\* A worker calls the callable of unit u.
FnComplete(u) ==
    /\ fns.units[u].status = "pending"
    /\ fns' = [fns EXCEPT
                 !.units[u].status = IF fns.units[u].fn.raises THEN "error" ELSE "finished",
                 !.units[u].outcome = [raised |-> fns.units[u].fn.raises,
                                       val |-> fns.units[u].fn.val]]
    /\ UNCHANGED <<jvars, ranOn, ex, mp, th, holo>>

\* Faulty variant: a failure of the callable comes back as a None result.
GatheredQuietly(unit) ==
    IF unit.status = "error" THEN [raised |-> FALSE, val |-> "None"]
    ELSE [raised |-> FALSE, val |-> unit.outcome.val]

\* client.gather(future) / future.result(): the value of a finished future,
\* or the exception of a failed one raised again.
Gathered(unit) ==
    IF unit.status = "error" THEN [raised |-> TRUE, val |-> unit.outcome.val]
    ELSE [raised |-> FALSE, val |-> unit.outcome.val]

\* The future of call c is done: run_function returns or raises.
FnReturn(c) ==
    /\ fns.calls[c].pc = "waiting"
    /\ fns.units[fns.calls[c].unit].status # "pending"
    /\ fns' = [fns EXCEPT
                 !.calls[c].pc = "returned",
                 !.calls[c].ret = Gathered(fns.units[fns.calls[c].unit])]
    /\ UNCHANGED <<jvars, ranOn, ex, mp, th, holo>>

FnInit ==
    /\ variant \in {"async", "sync"}
    /\ tasks \in [Jobs -> UnconstrainedShapes]
    /\ InitJobs
    /\ ex = Connected
    /\ mp = NoMap
    /\ th = NoThreads
    /\ holo = NoHolo

FnNext ==
    \/ (\E j \in Jobs : CallRunJob(j)) /\ UNCHANGED xvars
    \/ (\E r \in RunIds : Start(r)) /\ UNCHANGED xvars
    \/ (\E h \in Handles : Complete(h)) /\ UNCHANGED xvars
    \/ (\E r \in RunIds : Deliver(r)) /\ UNCHANGED xvars
    \/ (\E r \in RunIds : Exhaust(r)) /\ UNCHANGED xvars
    \/ \E f \in Callables : RunFunction(f)
    \/ \E u \in 1..Len(fns.units) : FnComplete(u)
    \/ \E c \in 1..Len(fns.calls) : FnReturn(c)

FnSpec == FnInit /\ [][FnNext]_vars

\* C15: a run_function call submits exactly one unit, with a priority above
\* the default of the job tasks; no step of it adds, changes or removes a
\* tracker entry or a future of a job; once it has ended it has returned the
\* value of its callable, or raised the callable's own failure.
C15_RunFunction ==
    /\ [](/\ Len(fns.units) = Len(fns.calls)
          /\ \A c \in 1..Len(fns.calls) :
                /\ fns.calls[c].unit = c
                /\ fns.units[c].fn = fns.calls[c].fn
                /\ fns.units[c].priority > 0
                /\ fns.calls[c].pc = "returned" =>
                      /\ fns.calls[c].ret.raised = fns.calls[c].fn.raises
                      /\ fns.calls[c].ret.val = fns.calls[c].fn.val)
    /\ [][fns' # fns =>
            /\ futures' = futures /\ pool' = pool /\ runs' = runs
            /\ Len(fns'.units) - Len(fns.units) = Len(fns'.calls) - Len(fns.calls)
            /\ Len(fns'.units) - Len(fns.units) \in {0, 1}]_vars

\* Two jobs are tracked; one run_function call has returned its value and
\* another has raised the failure of its callable.
C15_Witness ==
    /\ DOMAIN futures = Jobs
    /\ \E c, d \in 1..Len(fns.calls) :
          /\ fns.calls[c].pc = "returned" /\ fns.calls[c].ret = [raised |-> FALSE, val |-> "v"]
          /\ fns.calls[d].pc = "returned" /\ fns.calls[d].ret = [raised |-> TRUE, val |-> "E"]


----------------------------------------------------------------------------
\* map_partitions of the sync executor.

MaxParts == 3

\* dataset.get_partitions(), each partition given by its get_locations().
Datasets == UNION {[1..n -> PlaceLocations] : n \in 0..MaxParts}

\* map_partitions(dataset, fn) is called: a generator is created.
MapPartitions(ps) ==
    /\ mp.pc = "none"
    /\ mp' = [pc |-> "created", parts |-> ps, units |-> <<>>, queue |-> <<>>,
              out |-> <<>>]
    /\ UNCHANGED <<jvars, ranOn, ex, fns, th, holo>>

\* Faulty variant: fn is submitted without the partition's locations.
MapSubmittedAnywhere(ps) ==
    [i \in 1..Len(ps) |->
        [part |-> i, workers |-> None, status |-> "pending", on |-> "none", rank |-> 0]]

\* The futures of the submission loop: fn bound to each partition, with
\* workers=partition.get_locations().
MapSubmitted(ps) ==
    [i \in 1..Len(ps) |->
        [part |-> i, workers |-> ps[i], status |-> "pending", on |-> "none", rank |-> 0]]

\* The first request for a result: every partition is submitted and the
\* iteration over as_completed begins; without partitions it ends at once.
MapStart ==
    /\ mp.pc = "created"
    /\ mp' = [mp EXCEPT !.units = MapSubmitted(mp.parts),
                        !.pc = IF Len(mp.parts) = 0 THEN "done" ELSE "iter"]
    /\ UNCHANGED <<jvars, ranOn, ex, fns, th, holo>>

\* Worker w, one the unit may run on, finishes unit u; as_completed queues
\* its result.
MapComplete(u, w) ==
    /\ mp.pc = "iter"
    /\ mp.units[u].status = "pending"
    /\ mp.units[u].workers.defined => w \in mp.units[u].workers.workers
    /\ mp' = [mp EXCEPT
                !.units[u].status = "finished",
                !.units[u].on = w,
                !.units[u].rank = 1 + Cardinality({x \in 1..Len(mp.units) :
                                                     mp.units[x].rank > 0}),
                !.queue = Append(@, [h |-> u, ok |-> TRUE])]
    /\ UNCHANGED <<jvars, ranOn, ex, fns, th, holo>>

\* The loop yields the next result.
MapDeliver ==
    /\ mp.pc = "iter"
    /\ mp.queue # <<>>
    /\ mp' = [mp EXCEPT !.queue = Pop(@).rest,
                        !.out = Append(@, Pop(mp.queue).e.h)]
    /\ UNCHANGED <<jvars, ranOn, ex, fns, th, holo>>

\* as_completed is exhausted.
MapExhaust ==
    /\ mp.pc = "iter"
    /\ mp.queue = <<>>
    /\ \A u \in 1..Len(mp.units) : mp.units[u].status # "pending"
    /\ mp' = [mp EXCEPT !.pc = "done"]
    /\ UNCHANGED <<jvars, ranOn, ex, fns, th, holo>>

MapInit ==
    /\ variant = "sync"
    /\ tasks = [j \in Jobs |-> <<>>]
    /\ InitJobs
    /\ ex = Connected
    /\ mp = NoMap
    /\ th = NoThreads
    /\ holo = NoHolo

MapNext ==
    \/ \E ps \in Datasets : MapPartitions(ps)
    \/ MapStart
    \/ \E u \in 1..Len(mp.units), w \in PoolWorkers : MapComplete(u, w)
    \/ MapDeliver
    \/ MapExhaust

MapSpec == MapInit /\ [][MapNext]_vars

\* C17: once map_partitions has been asked for a result there is exactly
\* one unit per partition, submitted with that partition's locality hints
\* and run only where they allow; the results come in the order the units
\* completed, one per unit, and when the sequence ends there is one for
\* every partition.
C17_MapPartitions ==
    /\ mp.pc \in {"iter", "done"} =>
          /\ Len(mp.units) = Len(mp.parts)
          /\ \A i \in 1..Len(mp.units) :
                /\ mp.units[i].part = i
                /\ mp.units[i].workers = mp.parts[i]
                /\ (mp.units[i].status = "finished" /\ mp.parts[i].defined) =>
                      mp.units[i].on \in mp.parts[i].workers
          /\ \A i \in 1..Len(mp.out) :
                /\ mp.out[i] \in 1..Len(mp.parts)
                /\ mp.units[mp.out[i]].rank = i
    /\ mp.pc = "done" =>
          /\ Len(mp.out) = Len(mp.parts)
          /\ {mp.out[i] : i \in 1..Len(mp.out)} = 1..Len(mp.parts)

\* Three partitions with different hints were mapped; the results came in
\* the order 3, 1, 2 of completion.
C17_Witness ==
    /\ mp.pc = "done"
    /\ mp.parts = <<[defined |-> TRUE, workers |-> {"w1"}],
                    [defined |-> TRUE, workers |-> {"w2"}], None>>
    /\ mp.out = <<3, 1, 2>>
    /\ mp.units[1].on = "w1" /\ mp.units[2].on = "w2"


----------------------------------------------------------------------------
\* The thread count scopes of utils/threading.py, as one thread nests them.
\* cfg holds pyfftw.config.NUM_THREADS, numba.get_num_threads() and the
\* limit of threadpoolctl; a frame of the stack is a scope that has been
\* entered and not left, with the values its context manager saved and a
\* copy of cfg taken on entry.

MaxThreads == 2
MaxDepth == 2

Counts == 1..MaxThreads

\* numba.set_num_threads(n) accepts 1..NUMBA_NUM_THREADS and raises
\* ValueError for anything else; the machine has MaxThreads of them.
NumbaAccepts(n) == n \in Counts

Kinds == {"fftw", "numba", "num"}

\* The settings a scope of the kind writes.
Touches(kind, has) ==
    CASE kind = "fftw" -> IF has THEN {"fftw"} ELSE {}
      [] kind = "numba" -> {"numba"}
      [] kind = "num" -> {"limit", "numba"} \cup (IF has THEN {"fftw"} ELSE {})

\* pyfftw.config.NUM_THREADS = n, numba.set_num_threads(n),
\* threadpool_limits(n): the settings in S are set to n.
SetTo(cfg, S, n) == [k \in DOMAIN cfg |-> IF k \in S THEN n ELSE cfg[k]]

\* pyfftw_threads = ..., numba_threads = ..., the original limits kept by
\* threadpool_limits: the values of the settings in S.
Saved(cfg, S) == [k \in S |-> cfg[k]]

\* Faulty variant: nothing is restored.
RestoreNothing(cfg, saved) == cfg

\* The finally blocks: each saved value is written back.
Restore(cfg, saved) ==
    [k \in DOMAIN cfg |-> IF k \in DOMAIN saved THEN saved[k] ELSE cfg[k]]

\* with set_...(n): the context managers are entered. When
\* numba.set_num_threads(n) raises, the finally blocks of the managers
\* entered so far run and the body is not.
Enter(kind, n) ==
    /\ Len(th.stack) < MaxDepth
    /\ LET S == Touches(kind, th.hasFftw)
           frame == [kind |-> kind, n |-> n, saved |-> Saved(th.cfg, S),
                     entry |-> th.cfg]
       IN  IF "numba" \in S /\ ~NumbaAccepts(n)
           THEN th' = [th EXCEPT
                         !.cfg = Restore(SetTo(th.cfg, S \ {"numba"}, n), frame.saved),
                         !.last = [how |-> "ValueError", frame |-> frame]]
           ELSE th' = [th EXCEPT
                         !.cfg = SetTo(th.cfg, S, n),
                         !.stack = Append(@, frame),
                         !.last = [how |-> "entered", frame |-> frame]]
    /\ UNCHANGED <<jvars, ranOn, ex, fns, mp, holo>>

\* The body of the innermost scope ends, by returning or by raising: the
\* finally blocks run.
Leave(how) ==
    /\ th.stack # <<>>
    /\ LET frame == th.stack[Len(th.stack)]
       IN  th' = [th EXCEPT
                    !.cfg = Restore(th.cfg, frame.saved),
                    !.stack = SubSeq(@, 1, Len(@) - 1),
                    !.last = [how |-> how, frame |-> frame]]
    /\ UNCHANGED <<jvars, ranOn, ex, fns, mp, holo>>

ThreadInit ==
    /\ variant = "sync"
    /\ tasks = [j \in Jobs |-> <<>>]
    /\ InitJobs
    /\ ex = Connected
    /\ mp = NoMap
    /\ th \in [cfg : [{"fftw", "numba", "limit"} -> Counts], hasFftw : BOOLEAN,
               stack : {<<>>}, last : {[how |-> "none"]}]
    /\ holo = NoHolo

ThreadNext ==
    \/ \E kind \in Kinds, n \in 1..(MaxThreads + 1) : Enter(kind, n)
    \/ \E how \in {"returned", "raised"} : Leave(how)

ThreadSpec == ThreadInit /\ [][ThreadNext]_vars

\* The settings a scope of the kind is about.
SettingsOf(kind) ==
    CASE kind = "fftw" -> IF th.hasFftw THEN {"fftw"} ELSE {}
      [] kind = "numba" -> {"numba"}
      [] kind = "num" -> {"limit", "numba"} \cup (IF th.hasFftw THEN {"fftw"} ELSE {})

\* C18: in the body of the innermost scope the settings of that scope equal
\* its n; leaving a scope, by return or by raise, puts every setting back to
\* the value it had when the scope was entered, also for scopes nested in
\* others; a scope whose entry fails leaves every setting as it was.
C18_ScopedThreads ==
    /\ [](th.stack # <<>> =>
            \A k \in SettingsOf(th.stack[Len(th.stack)].kind) :
                th.cfg[k] = th.stack[Len(th.stack)].n)
    /\ [][/\ Len(th'.stack) < Len(th.stack) =>
                th'.cfg = th.stack[Len(th.stack)].entry
          /\ (th' # th /\ Len(th'.stack) = Len(th.stack)) => th'.cfg = th.cfg]_vars

\* Inside set_num_threads(1) a nested set_num_threads(2) was left by a
\* raise: all settings are 1 again, and were not 1 before the outer scope.
C18_Witness ==
    /\ th.hasFftw
    /\ Len(th.stack) = 1
    /\ th.stack[1].kind = "num" /\ th.stack[1].n = 1
    /\ \A k \in DOMAIN th.cfg : th.stack[1].entry[k] = MaxThreads
    /\ th.last.how = "raised"
    /\ th.last.frame.kind = "num" /\ th.last.frame.n = 2
    /\ \A k \in DOMAIN th.cfg : th.cfg[k] = 1


----------------------------------------------------------------------------
\* The FFT slice of HoloReconstructUDF.

MaxSig == 4

\* int(a / 2 - b / 2) and int(a / 2 + b / 2) for integers a, b, with m the
\* difference or the sum: the halves are exact floats and int() drops the
\* fraction towards zero.
IntOfHalf(m) == IF m >= 0 THEN m \div 2 ELSE -((-m) \div 2)

\* slice_fft of get_task_data for a signal shape (sy, sx) and an out_shape
\* (oy, ox).
SliceFft(sy, sx, oy, ox) ==
    [y_min |-> IntOfHalf(sy - oy),
     y_max |-> IntOfHalf(sy + oy),
     x_min |-> IntOfHalf(sx - ox),
     x_max |-> IntOfHalf(sx + oy)]

\* The length of a[lo:hi] for an axis of n entries.
Bound(i, n) == IF i < 0 THEN (IF i + n < 0 THEN 0 ELSE i + n)
               ELSE IF i > n THEN n ELSE i
SliceLen(lo, hi, n) ==
    IF Bound(hi, n) > Bound(lo, n) THEN Bound(hi, n) - Bound(lo, n) ELSE 0

\* Two axis lengths numpy can multiply elementwise.
Broadcasts(a, b) == a = b \/ a = 1 \/ b = 1

\* get_task_data() for a partition of signal shape sig and the parameter
\* out_shape.
GetTaskData(sig, out) ==
    /\ holo.pc = "none"
    /\ holo' = [holo EXCEPT !.pc = "task_data", !.sig = sig, !.out_shape = out,
                            !.slice = SliceFft(sig[1], sig[2], out[1], out[2])]
    /\ UNCHANGED <<jvars, ranOn, ex, fns, mp, th>>

\* process_frame(frame): the shifted FFT of the frame is cropped with
\* slice_fft and multiplied with the aperture, an array of shape out_shape.
ProcessFrame ==
    /\ holo.pc = "task_data"
    /\ LET rows == SliceLen(holo.slice.y_min, holo.slice.y_max, holo.sig[1])
           cols == SliceLen(holo.slice.x_min, holo.slice.x_max, holo.sig[2])
       IN  holo' = [holo EXCEPT
                      !.cropped = <<rows, cols>>,
                      !.pc = IF /\ Broadcasts(rows, holo.out_shape[1])
                                /\ Broadcasts(cols, holo.out_shape[2])
                             THEN "framed" ELSE "ValueError"]
    /\ UNCHANGED <<jvars, ranOn, ex, fns, mp, th>>

HoloInit ==
    /\ variant = "sync"
    /\ tasks = [j \in Jobs |-> <<>>]
    /\ InitJobs
    /\ ex = Connected
    /\ mp = NoMap
    /\ th = NoThreads
    /\ holo = NoHolo

HoloNext ==
    \/ \E sig, out \in (1..MaxSig) \X (1..MaxSig) : GetTaskData(sig, out)
    \/ ProcessFrame

HoloSpec == HoloInit /\ [][HoloNext]_vars

\* C20: for an out_shape (oy, ox) that fits the signal shape (sy, sx), the
\* FFT slice lies inside the frame, is oy rows by ox columns, is centred in
\* the frame, and the cropped spectrum has the shape of the aperture.
C20_SliceMatchesOutShape ==
    (/\ holo.pc # "none"
     /\ holo.out_shape[1] <= holo.sig[1]
     /\ holo.out_shape[2] <= holo.sig[2]) =>
        /\ 0 <= holo.slice.y_min /\ holo.slice.y_max <= holo.sig[1]
        /\ 0 <= holo.slice.x_min /\ holo.slice.x_max <= holo.sig[2]
        /\ holo.slice.y_max - holo.slice.y_min = holo.out_shape[1]
        /\ holo.slice.x_max - holo.slice.x_min = holo.out_shape[2]
        /\ holo.slice.y_min + holo.slice.y_max - holo.sig[1] \in {-1, 0, 1}
        /\ holo.slice.x_min + holo.slice.x_max - holo.sig[2] \in {-1, 0, 1}
        /\ holo.pc \in {"framed", "ValueError"} =>
              holo.pc = "framed" /\ holo.cropped = holo.out_shape

====
